---- MODULE Spec2Model ----
(***************************************************************************)
(* SpotifyInfoBot (src/main.py): one polling loop that lists the newest    *)
(* submissions of a subreddit, filters them through a de-duplication gate  *)
(* (in-memory list submission_ids, durable table submissions, age),        *)
(* extracts a playlist id from the URL, fetches the playlist and its pages *)
(* from Spotify, replies, and records the submission.  Each of the four    *)
(* remote calls is followed by its own hand-written retry loop.            *)
(*                                                                         *)
(* The process is a state machine over pc, the position in main():         *)
(*   "poll"            line 66, first listing attempt                      *)
(*   "poll_retry"      lines 74-88                                         *)
(*   "for"             line 90, the next submission of the listing         *)
(*   "playlist"        line 128, first playlist attempt                    *)
(*   "playlist_retry"  lines 140-154                                       *)
(*   "pages"           line 157, the pagination loop's test                *)
(*   "pages_retry"     lines 168-182                                       *)
(*   "reply"           line 229, first reply attempt                       *)
(*   "reply_retry"     lines 238-252                                       *)
(*   "record"          lines 254-264                                       *)
(*   "crashed"         an uncaught exception ended the process             *)
(*                                                                         *)
(* This machine (Spec, LiveSpec) carries the number of a playlist's items  *)
(* only.  What lines 189-226 compute from the items themselves (total      *)
(* duration, ranking, the five tracks listed) is a second machine,         *)
(* ResponseSpec, run on every playlist of Playlists.                       *)
(***************************************************************************)
EXTENDS Integers, Sequences, FiniteSets, TLC

\* ---------------------------------------------------------------- bounds

\* Length of the longest playlist whose tracks are drawn.
MaxTracks == 6

\* Number of submissions that exist on the subreddit.
NumPosts == 5
\* Size of one listing; stands for limit=100 of subreddit.new (lines 66, 83).
FetchLimit == 2
\* Failed attempts one remote operation may suffer before the model lets it pass.
MaxFailures == 6
\* Seconds the clock may advance after the process first started.
MaxTick == 2
\* Times the process may be killed and started again.
MaxRestarts == 1

\* ------------------------------------------------------ program constants

StaleAge == 900
PageSize == 100
BackoffStart == 2
BackoffCap == 32

MsPerMinute == 60000
MsPerHour == 3600000
\* line 214: the tracks listed in a response.
TopCount == 5
SpotifyHost == "open.spotify.com"

\* Capacity of submission_ids: 125 (line 261) for listings of 100 (line 66),
\* in the proportion of the model's listings.
CacheCapacity == (125 * FetchLimit) \div 100

\* Largest total a playlist reports: two and a half pages.
MaxTotal == 2 * PageSize + PageSize \div 2

\* ------------------------------------------------------------ submissions

Posts == 1..NumPosts

\* The URLs submitted, as furl splits them: host and path segments.
UrlTable ==
    << [host |-> "open.spotify.com", segments |-> <<"Playlist", "pl_live">>],
       [host |-> "open.spotify.com", segments |-> <<"user", "u", "playlist", "pl_gone">>],
       [host |-> "example.com",      segments |-> <<"playlist", "pl_live">>],
       [host |-> "open.spotify.com", segments |-> <<"album", "pl_live">>],
       [host |-> "open.spotify.com", segments |-> <<"playlist">>],
       [host |-> "open.spotify.com", segments |-> <<"User", "u">>] >>

url(p) == UrlTable[((p - 1) % Len(UrlTable)) + 1]

\* submission.created_utc: submission p was created p-1 seconds after the epoch.
created_utc(p) == p - 1

\* The clock when the process first starts: the oldest submission is 899 s old.
NowStart == StaleAge - 1

\* str.lower() on the path segments that occur.
Lower(s) ==
    CASE s = "Playlist" -> "playlist"
      [] s = "User" -> "user"
      [] OTHER -> s

\* Playlist ids that resolve on the service.
LivePlaylists == {"pl_live"}

Min(a, b) == IF a < b THEN a ELSE b

VARIABLES
    pc,               \* position in main()
    new_submissions,  \* what is left of the listing being iterated, current first
    submission_ids,   \* the in-memory cache (line 60)
    db,               \* rows of table submissions, in insertion order
    replies,          \* per submission, the replies the forum accepted
    now,              \* the clock, in seconds
    restarts,         \* times the process was restarted
    sleep_time,       \* local of the retry loops
    attempt_count,    \* local of the retry loops
    playlist_id,      \* local, line 114
    playlist,         \* local: [total, items], lengths only
    offset,           \* local, line 156
    waits,            \* history: the sleeps of the retry loop in progress
    last_err,         \* history: outcome of the latest playlist attempt for this submission
    page_offsets,     \* history: offsets of the page fetches that succeeded
    last_req,         \* history: offset of the latest page request sent
    pages_full,       \* history: every page returned so far was full
    window_restarts,  \* history: per submission, restarts between its reply and its row
    outcome,          \* history: the branch that ended the latest loop body
    popped,           \* history: the ids the step just taken removed from the cache
    gone_seen,        \* history: submissions whose playlist this process found missing
    items,            \* playlist["tracks"]["items"] when the response is built
    total_ms,         \* local, line 190
    hours,            \* local, line 194
    minutes,          \* local, line 195
    ranked_tracks,    \* local, line 198: positions in items, in ranked order
    listed,           \* the tracks written into the response (lines 214-226)
    stage             \* position in lines 189-226

\* The variables of the polling loop, and those of the response builder.
loop == << pc, new_submissions, submission_ids, db, replies, now, restarts,
           sleep_time, attempt_count, playlist_id, playlist, offset,
           waits, last_err, page_offsets, last_req, pages_full, window_restarts,
           outcome, popped, gone_seen >>
response == << items, total_ms, hours, minutes, ranked_tracks, listed, stage >>

vars == << loop, response >>

NoPlaylist == [total |-> 0, items |-> 0]

\* ------------------------------------------------------------- helpers

RECURSIVE SortedDesc(_)
\* The members of S, largest (newest) first.
SortedDesc(S) ==
    IF S = {} THEN << >>
    ELSE LET m == CHOOSE x \in S : \A y \in S : y <= x
         IN  << m >> \o SortedDesc(S \ {m})

\* What subreddit.new(limit=...) may return: at most FetchLimit submissions,
\* newest first, none twice.
Listings == { SortedDesc(S) : S \in { T \in SUBSET Posts : Cardinality(T) <= FetchLimit } }

\* Faulty variant of InCache: the test of line 91 never finds the id.
InCacheNever(id) == FALSE

\* line 91: submission.id in submission_ids
InCache(id) == \E i \in DOMAIN submission_ids : submission_ids[i] = id

\* Faulty variant of IsStale: the comparison of line 95 with <= for <.
IsStaleInclusive(p, t) == created_utc(p) <= t - StaleAge

\* line 95: int(created_utc) < int(utcnow) - 900
IsStale(p, t) == created_utc(p) < t - StaleAge

\* Faulty variant of InStore: the lookup of lines 99-100 never finds a row.
InStoreNever(id) == FALSE

\* lines 99-100: select * from submissions where id=? ; fetchone()
InStore(id) == \E i \in DOMAIN db : db[i].id = id

\* line 108
HostOk(p) == url(p).host = SpotifyHost

\* lines 115-122: "id" with the playlist id, "none" when the first segment is
\* neither playlist nor user, "error" when an indexed segment is missing
\* (IndexError, caught nowhere).
Extract(segments) ==
    IF Len(segments) < 1 THEN [kind |-> "error", id |-> ""]
    ELSE IF Lower(segments[1]) = "playlist"
         THEN IF Len(segments) < 2 THEN [kind |-> "error", id |-> ""]
              ELSE [kind |-> "id", id |-> segments[2]]
    ELSE IF Lower(segments[1]) = "user"
         THEN IF Len(segments) < 4 THEN [kind |-> "error", id |-> ""]
              ELSE [kind |-> "id", id |-> segments[4]]
    ELSE [kind |-> "none", id |-> ""]

\* Faulty variant of NextSleep: the doubling without the test of line 79.
NextSleepUncapped(s) == s * 2

\* lines 79-80 (and 145-146, 173-174, 243-244)
NextSleep(s) == IF s < BackoffCap THEN s * 2 ELSE s

RECURSIVE EvictNewest(_)
\* Faulty variant of Evict: pop() in place of pop(0).
EvictNewest(ids) ==
    IF Len(ids) > CacheCapacity THEN EvictNewest(SubSeq(ids, 1, Len(ids) - 1)) ELSE ids

RECURSIVE Evict(_)
\* lines 261-262: while len(submission_ids) > 125: pop(0)
Evict(ids) == IF Len(ids) > CacheCapacity THEN Evict(Tail(ids)) ELSE ids

\* Totals a playlist may report.
Totals == { t \in 0..MaxTotal : t % PageSize \in {0, 1, PageSize \div 2} }

\* Items of the first page, returned with the playlist itself.
FirstPage(total) == Min(total, PageSize)

\* Items a page request at offset off returns when the playlist still has
\* total tracks.
FullPage(total, off) ==
    IF total - off <= 0 THEN 0 ELSE Min(total - off, PageSize)

\* Items a page request may return: the full page, or fewer when tracks were
\* removed after the total was reported.
PageReturns(total, off) == { FullPage(total, off), FullPage(total, off) \div 2, 0 }

\* The submission being processed.
submission == Head(new_submissions)

\* --------------------------------- the tracks of a playlist (lines 189-226)

\* An entry of playlist["tracks"]["items"]: its "track" is None (a track that
\* was removed or is unavailable), or carries a popularity and a duration.
NullTrack == [is_null |-> TRUE, popularity |-> 0, duration_ms |-> 0]
Track(p, d) == [is_null |-> FALSE, popularity |-> p, duration_ms |-> d]

\* The entries playlists are drawn from: a null entry, a track whose popularity
\* ties with it, two tracks that tie with each other; durations on both sides
\* of a minute and, summed, of an hour.
TrackChoices == { NullTrack, Track(0, 59999), Track(50, 60000), Track(50, 3540000) }

\* Two playlists with the popularities and the durations of worked examples.
PopularityExample ==
    << Track(10, 1000), Track(90, 1000), Track(50, 1000), Track(0, 1000),
       Track(70, 1000), Track(30, 1000), Track(60, 1000) >>
DurationExample == << NullTrack, Track(20, 120000), Track(40, 180000) >>

Playlists ==
    UNION { [1..n -> TrackChoices] : n \in 0..MaxTracks }
        \cup { PopularityExample, DurationExample }

\* line 200: the sort key.
Popularity(track) == IF track.is_null THEN 0 ELSE track.popularity

RECURSIVE SumDurationMs(_)
\* lines 190-192
SumDurationMs(tracks) ==
    IF tracks = << >>
    THEN 0
    ELSE (IF Head(tracks).is_null THEN 0 ELSE Head(tracks).duration_ms)
            + SumDurationMs(Tail(tracks))

\* lines 194 and 195: int() of a float quotient.  A double holds every total
\* below 2^53 ms and its quotient by 60000 or 3600000 to well within one part
\* in 60000, so the integer part is that of the integer division.
Hours(ms) == ms \div MsPerHour
\* Faulty variant of Minutes: a started minute counts as a whole one.
MinutesRoundedUp(ms) == ((ms + MsPerMinute - 1) \div MsPerMinute) % 60
Minutes(ms) == (ms \div MsPerMinute) % 60

\* Faulty variant of InsertRanked: position i goes in front of the positions
\* whose popularity equals its own.
InsertRankedBeforeEquals(tracks, ranked, i) ==
    LET ahead == Cardinality({ k \in DOMAIN ranked :
                                 Popularity(tracks[ranked[k]]) > Popularity(tracks[i]) })
    IN  SubSeq(ranked, 1, ahead) \o << i >> \o SubSeq(ranked, ahead + 1, Len(ranked))

\* One insertion of the sort of lines 198-202: position i goes behind every
\* position ranked so far whose popularity is not smaller.
InsertRanked(tracks, ranked, i) ==
    LET ahead == Cardinality({ k \in DOMAIN ranked :
                                 Popularity(tracks[ranked[k]]) >= Popularity(tracks[i]) })
    IN  SubSeq(ranked, 1, ahead) \o << i >> \o SubSeq(ranked, ahead + 1, Len(ranked))

RECURSIVE Ranked(_, _)
\* lines 198-202: sorted(items, key=..., reverse=True) as the positions
\* 1..n of tracks in ranked order.  Python's sort is stable, with reverse too.
Ranked(tracks, n) ==
    IF n = 0 THEN << >> ELSE InsertRanked(tracks, Ranked(tracks, n - 1), n)

\* line 214: ranked_tracks[:5]
FirstFive(ranked) == SubSeq(ranked, 1, Min(TopCount, Len(ranked)))

\* line 215 reads track["track"]["artists"]: a TypeError when the entry is null.
HasNull(tracks, positions) == \E k \in DOMAIN positions : tracks[positions[k]].is_null

\* The response builder is not running.
NoResponse ==
    /\ items = << >>
    /\ total_ms = 0
    /\ hours = 0
    /\ minutes = 0
    /\ ranked_tracks = << >>
    /\ listed = << >>
    /\ stage = "none"

\* ------------------------------------------------------------- initial state

InitLoop ==
    /\ pc = "poll"
    /\ new_submissions = << >>
    /\ submission_ids = << >>
    /\ db = << >>
    /\ replies = [p \in Posts |-> 0]
    /\ now = NowStart
    /\ restarts = 0
    /\ sleep_time = 0
    /\ attempt_count = 0
    /\ playlist_id = ""
    /\ playlist = NoPlaylist
    /\ offset = 0
    /\ waits = << >>
    /\ last_err = "none"
    /\ page_offsets = << >>
    /\ last_req = 0
    /\ pages_full = TRUE
    /\ window_restarts = [p \in Posts |-> 0]
    /\ outcome = "none"
    /\ popped = << >>
    /\ gone_seen = {}

Init == InitLoop /\ NoResponse

\* ------------------------------------------------------------- fragments

history == << waits, last_err, page_offsets, last_req, pages_full >>
stores == << db, replies, window_restarts >>
paging == << playlist_id, playlist, offset >>
backoff == << sleep_time, attempt_count >>

\* `continue`, or the end of the loop body: on to the next submission.
Continue(ids, how) ==
    /\ outcome' = how
    /\ submission_ids' = ids
    /\ popped' = SelectSeq(submission_ids, LAMBDA id : \A i \in DOMAIN ids : ids[i] # id)
    /\ new_submissions' = Tail(new_submissions)
    /\ pc' = "for"

\* An exception that nothing catches ends main(): the process is gone, and with
\* it what it held in memory (the listing being iterated, the cache).
Crashed ==
    /\ pc' = "crashed"
    /\ outcome' = "error"
    /\ new_submissions' = << >>
    /\ submission_ids' = << >>
    /\ popped' = << >>
    /\ gone_seen' = {}

\* playlist_id, playlist and offset are dead once the response is built (the
\* next reads follow lines 114, 128 and 156); the model forgets them, and the
\* history of the pagination with them.
ForgetPlaylist ==
    /\ playlist_id' = ""
    /\ playlist' = NoPlaylist
    /\ offset' = 0
    /\ page_offsets' = << >>
    /\ last_req' = 0
    /\ pages_full' = TRUE

\* lines 70-72 (136-138, 164-166, 234-236): the first attempt failed.
BeginRetry ==
    /\ sleep_time' = BackoffStart
    /\ attempt_count' = 1
    /\ UNCHANGED waits

\* lines 77-80: one sleep of the retry loop, then the next sleep is computed.
RetrySleep ==
    /\ waits' = Append(waits, sleep_time)
    /\ sleep_time' = NextSleep(sleep_time)

\* lines 86-88: the reattempt failed.
RetryFailed ==
    /\ attempt_count < MaxFailures
    /\ RetrySleep
    /\ attempt_count' = attempt_count + 1

\* lines 83-85: the reattempt succeeded and the retry loop ends.  sleep_time and
\* attempt_count are dead from here on (every later read follows the assignments
\* of lines 70-72, 136-138, 164-166 or 234-236), and the model forgets them.
RetrySucceeded ==
    /\ waits' = << >>
    /\ sleep_time' = 0
    /\ attempt_count' = 0

\* --------------------------------------------------- listing (lines 65-88)

PollOk ==
    /\ pc = "poll"
    /\ \E batch \in Listings : new_submissions' = batch
    /\ pc' = "for"
    /\ UNCHANGED << outcome, submission_ids, now, restarts, stores, backoff, paging, history >>
    /\ popped' = << >>
    /\ UNCHANGED << response, gone_seen >>

PollFail ==
    /\ pc = "poll"
    /\ pc' = "poll_retry"
    /\ BeginRetry
    /\ UNCHANGED << outcome, new_submissions, submission_ids, now, restarts, stores, paging,
                    last_err, page_offsets, last_req, pages_full >>
    /\ popped' = << >>
    /\ UNCHANGED << response, gone_seen >>

PollRetryOk ==
    /\ pc = "poll_retry"
    /\ RetrySucceeded
    /\ \E batch \in Listings : new_submissions' = batch
    /\ pc' = "for"
    /\ UNCHANGED << outcome, submission_ids, now, restarts, stores, paging,
                    last_err, page_offsets, last_req, pages_full >>
    /\ popped' = << >>
    /\ UNCHANGED << response, gone_seen >>

PollRetryFail ==
    /\ pc = "poll_retry"
    /\ RetryFailed
    /\ UNCHANGED << outcome, pc, new_submissions, submission_ids, now, restarts, stores, paging,
                    last_err, page_offsets, last_req, pages_full >>
    /\ popped' = << >>
    /\ UNCHANGED << response, gone_seen >>

\* line 90: the listing is exhausted, back to `while True`.
ForDone ==
    /\ pc = "for"
    /\ new_submissions = << >>
    /\ pc' = "poll"
    /\ outcome' = "none"
    /\ UNCHANGED << new_submissions, submission_ids, now, restarts, stores, backoff,
                    paging, history >>
    /\ popped' = << >>
    /\ UNCHANGED << response, gone_seen >>

\* ------------------------------------------- the gate (lines 91-122)

\* Faulty variant of SkipCached: the id is appended before the `continue` of line 92,
\* as on the other skips.
SkipCachedAppends ==
    /\ pc = "for" /\ new_submissions # << >>
    /\ InCache(submission)
    /\ Continue(Append(submission_ids, submission), "cached")
    /\ UNCHANGED << now, restarts, stores, backoff, paging, history >>
    /\ UNCHANGED << response, gone_seen >>

\* lines 91-92
SkipCached ==
    /\ pc = "for" /\ new_submissions # << >>
    /\ InCache(submission)
    /\ Continue(submission_ids, "cached")
    /\ UNCHANGED << now, restarts, stores, backoff, paging, history >>
    /\ UNCHANGED << response, gone_seen >>

\* lines 95-97
SkipStale ==
    /\ pc = "for" /\ new_submissions # << >>
    /\ ~InCache(submission)
    /\ IsStale(submission, now)
    /\ Continue(Append(submission_ids, submission), "stale")
    /\ UNCHANGED << now, restarts, stores, backoff, paging, history >>
    /\ UNCHANGED << response, gone_seen >>

\* lines 99-102
SkipStored ==
    /\ pc = "for" /\ new_submissions # << >>
    /\ ~InCache(submission)
    /\ ~IsStale(submission, now)
    /\ InStore(submission)
    /\ Continue(Append(submission_ids, submission), "stored")
    /\ UNCHANGED << now, restarts, stores, backoff, paging, history >>
    /\ UNCHANGED << response, gone_seen >>

\* The submission reached line 105: none of the three skips applied.
PassesGate ==
    /\ pc = "for" /\ new_submissions # << >>
    /\ ~InCache(submission)
    /\ ~IsStale(submission, now)
    /\ ~InStore(submission)

\* lines 108-111
SkipHost ==
    /\ PassesGate
    /\ ~HostOk(submission)
    /\ Continue(Append(submission_ids, submission), "host")
    /\ UNCHANGED << now, restarts, stores, backoff, paging, history >>
    /\ UNCHANGED << response, gone_seen >>

\* lines 114, 119-122
SkipPath ==
    /\ PassesGate
    /\ HostOk(submission)
    /\ Extract(url(submission).segments).kind = "none"
    /\ playlist_id' = ""
    /\ Continue(Append(submission_ids, submission), "path")
    /\ UNCHANGED << now, restarts, stores, backoff, playlist, offset, history >>
    /\ UNCHANGED << response, gone_seen >>

\* lines 115-118 with a segment missing: IndexError leaves main().
PathError ==
    /\ PassesGate
    /\ HostOk(submission)
    /\ Extract(url(submission).segments).kind = "error"
    /\ playlist_id' = ""
    /\ Crashed
    /\ UNCHANGED << now, restarts, stores, backoff, playlist, offset, history, response >>

\* lines 114-118, 124
ExtractId ==
    /\ PassesGate
    /\ HostOk(submission)
    /\ Extract(url(submission).segments).kind = "id"
    /\ playlist_id' = Extract(url(submission).segments).id
    /\ pc' = "playlist"
    /\ outcome' = "none"
    /\ last_err' = "none"
    /\ UNCHANGED << new_submissions, submission_ids, now, restarts, stores, backoff,
                    playlist, offset, waits, page_offsets, last_req, pages_full >>
    /\ popped' = << >>
    /\ UNCHANGED << response, gone_seen >>

\* ---------------------------------------- the playlist (lines 127-154)

\* line 128 returned: the playlist with its first page; line 156.
GotPlaylist(total) ==
    /\ playlist' = [total |-> total, items |-> FirstPage(total)]
    /\ offset' = PageSize
    /\ pc' = "pages"
    /\ last_err' = "none"
    /\ page_offsets' = << >>
    /\ last_req' = 0
    /\ pages_full' = TRUE

PlaylistOk ==
    /\ pc = "playlist"
    /\ playlist_id \in LivePlaylists
    /\ \E total \in Totals : GotPlaylist(total)
    /\ UNCHANGED << outcome, new_submissions, submission_ids, now, restarts, stores, backoff,
                    playlist_id, waits >>
    /\ popped' = << >>
    /\ UNCHANGED << response, gone_seen >>

\* lines 129-132: SpotifyException on the first attempt.
PlaylistNotFound ==
    /\ pc = "playlist"
    /\ playlist_id \notin LivePlaylists
    /\ last_err' = "notfound"
    /\ Continue(Append(submission_ids, submission), "notfound")
    /\ playlist_id' = ""
    /\ UNCHANGED << now, restarts, stores, backoff, playlist, offset, waits,
                    page_offsets, last_req, pages_full >>
    /\ gone_seen' = gone_seen \cup {submission}
    /\ UNCHANGED << response >>

\* lines 133-138: any other exception on the first attempt.
PlaylistFail ==
    /\ pc = "playlist"
    /\ pc' = "playlist_retry"
    /\ last_err' = "transient"
    /\ BeginRetry
    /\ UNCHANGED << outcome, new_submissions, submission_ids, now, restarts, stores, paging,
                    page_offsets, last_req, pages_full >>
    /\ popped' = << >>
    /\ UNCHANGED << response, gone_seen >>

PlaylistRetryOk ==
    /\ pc = "playlist_retry"
    /\ playlist_id \in LivePlaylists
    /\ RetrySucceeded
    /\ \E total \in Totals : GotPlaylist(total)
    /\ UNCHANGED << outcome, new_submissions, submission_ids, now, restarts, stores, playlist_id >>
    /\ popped' = << >>
    /\ UNCHANGED << response, gone_seen >>

\* lines 152-154: `except Exception` catches every failure of the reattempt,
\* SpotifyException included.
PlaylistRetryFail ==
    /\ pc = "playlist_retry"
    /\ RetryFailed
    /\ \E err \in {"transient", "notfound"} :
          /\ err = "notfound" => playlist_id \notin LivePlaylists
          /\ last_err' = err
    /\ UNCHANGED << outcome, pc, new_submissions, submission_ids, now, restarts, stores, paging,
                    page_offsets, last_req, pages_full >>
    /\ popped' = << >>
    /\ UNCHANGED << response, gone_seen >>

\* ------------------------------------------ pagination (lines 156-187)

\* Faulty variant of GotPage: line 185 (offset += 100) left out.
GotPageSameOffset(n) ==
    /\ playlist' = [playlist EXCEPT !.items = @ + n]
    /\ offset' = offset
    /\ pc' = "pages"
    /\ page_offsets' = Append(page_offsets, offset)
    /\ last_req' = offset
    /\ pages_full' = (pages_full /\ n = FullPage(playlist.total, offset))

\* lines 184-185: a page arrived.
GotPage(n) ==
    /\ playlist' = [playlist EXCEPT !.items = @ + n]
    /\ offset' = offset + PageSize
    /\ pc' = "pages"
    /\ page_offsets' = Append(page_offsets, offset)
    /\ last_req' = offset
    /\ pages_full' = (pages_full /\ n = FullPage(playlist.total, offset))

\* line 157: the loop's test holds, and the model still follows the offset.
MorePages ==
    /\ playlist.items < playlist.total
    /\ offset < MaxTotal + PageSize

PageOk ==
    /\ pc = "pages"
    /\ MorePages
    /\ \E n \in PageReturns(playlist.total, offset) : GotPage(n)
    /\ UNCHANGED << outcome, new_submissions, submission_ids, now, restarts, stores, backoff,
                    playlist_id, waits, last_err >>
    /\ popped' = << >>
    /\ UNCHANGED << response, gone_seen >>

PageFail ==
    /\ pc = "pages"
    /\ MorePages
    /\ pc' = "pages_retry"
    /\ last_req' = offset
    /\ BeginRetry
    /\ UNCHANGED << outcome, new_submissions, submission_ids, now, restarts, stores, paging,
                    last_err, page_offsets, pages_full >>
    /\ popped' = << >>
    /\ UNCHANGED << response, gone_seen >>

PageRetryOk ==
    /\ pc = "pages_retry"
    /\ RetrySucceeded
    /\ \E n \in PageReturns(playlist.total, offset) : GotPage(n)
    /\ UNCHANGED << outcome, new_submissions, submission_ids, now, restarts, stores,
                    playlist_id, last_err >>
    /\ popped' = << >>
    /\ UNCHANGED << response, gone_seen >>

PageRetryFail ==
    /\ pc = "pages_retry"
    /\ RetryFailed
    /\ last_req' = offset
    /\ UNCHANGED << outcome, pc, new_submissions, submission_ids, now, restarts, stores, paging,
                    last_err, page_offsets, pages_full >>
    /\ popped' = << >>
    /\ UNCHANGED << response, gone_seen >>

\* line 157 no longer holds: lines 189-226 build the response.
PagesDone ==
    /\ pc = "pages"
    /\ ~(playlist.items < playlist.total)
    /\ pc' = "reply"
    /\ ForgetPlaylist
    /\ UNCHANGED << outcome, new_submissions, submission_ids, now, restarts, stores, backoff,
                    waits, last_err >>
    /\ popped' = << >>
    /\ UNCHANGED << response, gone_seen >>

\* line 157 no longer holds and line 215 raises TypeError: a null entry is
\* among the first five of the ranking (HasNull; what the entries hold is the
\* playlist's choice, this machine carries their number only).
PagesDoneRaises ==
    /\ pc = "pages"
    /\ ~(playlist.items < playlist.total)
    /\ playlist.items > 0
    /\ Crashed
    /\ ForgetPlaylist
    /\ UNCHANGED << now, restarts, stores, backoff, waits, last_err, response >>

\* ----------------------------------------------- reply (lines 228-252)

Posted == replies' = [replies EXCEPT ![submission] = @ + 1]

ReplyOk ==
    /\ pc = "reply"
    /\ Posted
    /\ pc' = "record"
    /\ UNCHANGED << outcome, new_submissions, submission_ids, now, restarts, db, window_restarts,
                    backoff, paging, history >>
    /\ popped' = << >>
    /\ UNCHANGED << response, gone_seen >>

\* Faulty variant of ReplyFail: the submission is recorded although the reply
\* was refused.
ReplyFailRecords ==
    /\ pc = "reply"
    /\ db' = Append(db, [id |-> submission, ts |-> now])
    /\ Continue(Evict(Append(submission_ids, submission)), "replied")
    /\ UNCHANGED << replies, window_restarts, now, restarts, backoff, paging, history >>
    /\ UNCHANGED << response, gone_seen >>

ReplyFail ==
    /\ pc = "reply"
    /\ pc' = "reply_retry"
    /\ BeginRetry
    /\ UNCHANGED << outcome, new_submissions, submission_ids, now, restarts, stores, paging,
                    last_err, page_offsets, last_req, pages_full >>
    /\ popped' = << >>
    /\ UNCHANGED << response, gone_seen >>

ReplyRetryOk ==
    /\ pc = "reply_retry"
    /\ RetrySucceeded
    /\ Posted
    /\ pc' = "record"
    /\ UNCHANGED << outcome, new_submissions, submission_ids, now, restarts, db, window_restarts,
                    paging, last_err, page_offsets, last_req, pages_full >>
    /\ popped' = << >>
    /\ UNCHANGED << response, gone_seen >>

\* Faulty variant of ReplyRetryFail: the failed reattempt gives the submission up.
ReplyRetryGivesUp ==
    /\ pc = "reply_retry"
    /\ RetrySucceeded
    /\ Continue(Append(submission_ids, submission), "none")
    /\ UNCHANGED << now, restarts, stores, paging, last_err, page_offsets, last_req,
                    pages_full >>
    /\ UNCHANGED << response, gone_seen >>

ReplyRetryFail ==
    /\ pc = "reply_retry"
    /\ RetryFailed
    /\ UNCHANGED << outcome, pc, new_submissions, submission_ids, now, restarts, stores, paging,
                    last_err, page_offsets, last_req, pages_full >>
    /\ popped' = << >>
    /\ UNCHANGED << response, gone_seen >>

\* ---------------------------------------------- record (lines 254-264)

\* Faulty variant of Record: the insert of lines 256-259 left out.
RecordWithoutRow ==
    /\ pc = "record"
    /\ Continue(Evict(Append(submission_ids, submission)), "replied")
    /\ UNCHANGED << stores, now, restarts, backoff, paging, history >>
    /\ UNCHANGED << response, gone_seen >>

Record ==
    /\ pc = "record"
    /\ db' = Append(db, [id |-> submission, ts |-> now])
    /\ Continue(Evict(Append(submission_ids, submission)), "replied")
    /\ UNCHANGED << replies, window_restarts, now, restarts, backoff, paging, history >>
    /\ UNCHANGED << response, gone_seen >>

\* ------------------------------------------------------- environment

\* The process is killed, or has crashed, and is started again: main() runs
\* from its first line, the table and the forum keep what they hold.
Restart ==
    /\ restarts < MaxRestarts
    /\ restarts' = restarts + 1
    /\ window_restarts' =
          IF pc = "record"
          THEN [window_restarts EXCEPT ![submission] = @ + 1]
          ELSE window_restarts
    /\ pc' = "poll"
    /\ outcome' = "none"
    /\ new_submissions' = << >>
    /\ submission_ids' = << >>
    /\ sleep_time' = 0
    /\ attempt_count' = 0
    /\ playlist_id' = ""
    /\ playlist' = NoPlaylist
    /\ offset' = 0
    /\ waits' = << >>
    /\ last_err' = "none"
    /\ page_offsets' = << >>
    /\ last_req' = 0
    /\ pages_full' = TRUE
    /\ UNCHANGED << db, replies, now >>
    /\ popped' = << >>
    /\ gone_seen' = {}
    /\ UNCHANGED response

\* A second passes.
Tick ==
    /\ now < NowStart + MaxTick
    /\ now' = now + 1
    /\ UNCHANGED << outcome, pc, new_submissions, submission_ids, restarts, stores, backoff,
                    paging, history >>
    /\ popped' = << >>
    /\ UNCHANGED << response, gone_seen >>

Next ==
    \/ PollOk \/ PollFail \/ PollRetryOk \/ PollRetryFail \/ ForDone
    \/ SkipCached \/ SkipStale \/ SkipStored \/ SkipHost \/ SkipPath \/ PathError
    \/ ExtractId
    \/ PlaylistOk \/ PlaylistNotFound \/ PlaylistFail \/ PlaylistRetryOk
    \/ PlaylistRetryFail
    \/ PageOk \/ PageFail \/ PageRetryOk \/ PageRetryFail \/ PagesDone
    \/ PagesDoneRaises
    \/ ReplyOk \/ ReplyFail \/ ReplyRetryOk \/ ReplyRetryFail
    \/ Record
    \/ Restart \/ Tick

Spec == Init /\ [][Next]_vars

\* The same machine with the scheduling the retry loops rest on: a reattempt
\* that can succeed is not refused for ever, and the process, once its reply is
\* posted, goes on to record it.
Fairness ==
    /\ WF_vars(PollRetryOk) /\ WF_vars(PlaylistRetryOk)
    /\ WF_vars(PageRetryOk) /\ WF_vars(ReplyRetryOk)
    /\ WF_vars(Record)

LiveSpec == Init /\ [][Next]_vars /\ Fairness

\* ------------------------------------- the response builder (lines 189-226)

\* Lines 189-226 on their own, for every playlist of Playlists: stage is
\*   "fetched"  line 189, the items are complete
\*   "timed"    line 197, total_ms, hours and minutes are computed
\*   "ranked"   line 204, ranked_tracks is computed
\*   "built"    line 228, the response is written
\*   "raised"   line 215 raised TypeError
ResponseInit ==
    /\ InitLoop
    /\ items \in Playlists
    /\ total_ms = 0
    /\ hours = 0
    /\ minutes = 0
    /\ ranked_tracks = << >>
    /\ listed = << >>
    /\ stage = "fetched"

\* lines 190-195
SumDurations ==
    /\ stage = "fetched"
    /\ total_ms' = SumDurationMs(items)
    /\ hours' = Hours(SumDurationMs(items))
    /\ minutes' = Minutes(SumDurationMs(items))
    /\ stage' = "timed"
    /\ UNCHANGED << loop, items, ranked_tracks, listed >>

\* lines 198-202
RankTracks ==
    /\ stage = "timed"
    /\ ranked_tracks' = Ranked(items, Len(items))
    /\ stage' = "ranked"
    /\ UNCHANGED << loop, items, total_ms, hours, minutes, listed >>

\* lines 204-226, no entry of ranked_tracks[:5] is null.
WriteTracks ==
    /\ stage = "ranked"
    /\ ~HasNull(items, FirstFive(ranked_tracks))
    /\ listed' = FirstFive(ranked_tracks)
    /\ stage' = "built"
    /\ UNCHANGED << loop, items, total_ms, hours, minutes, ranked_tracks >>

\* lines 204-215, an entry of ranked_tracks[:5] is null: TypeError.
WriteRaises ==
    /\ stage = "ranked"
    /\ HasNull(items, FirstFive(ranked_tracks))
    /\ stage' = "raised"
    /\ UNCHANGED << loop, items, total_ms, hours, minutes, ranked_tracks, listed >>

ResponseNext == SumDurations \/ RankTracks \/ WriteTracks \/ WriteRaises

ResponseSpec == ResponseInit /\ [][ResponseNext]_vars

\* =================================================================== claims

\* Occurrences of id in a sequence of ids, and rows of id in a table.
Occurrences(ids, id) == Cardinality({ i \in DOMAIN ids : ids[i] = id })
Rows(table, id) == Cardinality({ i \in DOMAIN table : table[i].id = id })

\* A step of main() itself, not of its environment.
ProgramStep == restarts' = restarts /\ now' = now

\* The step ends the loop body for the current submission.
BodyEnds ==
    /\ ProgramStep
    /\ new_submissions # << >>
    /\ pc' = "for"
    /\ new_submissions' = Tail(new_submissions)

RetryPcs == {"poll_retry", "playlist_retry", "pages_retry", "reply_retry"}

\* Where each retry loop continues once its operation succeeded.
AfterRetry(at) ==
    CASE at = "poll_retry" -> "for"
      [] at = "playlist_retry" -> "pages"
      [] at = "pages_retry" -> "pages"
      [] at = "reply_retry" -> "record"

\* ---- C1
\* C1 as stated: over any execution, restarts at arbitrary points and repeated
\* listings included, every submission receives at most one posted reply.
C1_AtMostOneReply == \A p \in Posts : replies[p] <= 1

\* C1 amended: every submission receives at most one posted reply, plus one for
\* every restart that fell between the posting of a reply to it (line 229/247)
\* and the commit of its row (line 259).
C1_AtMostOneReplyPerLostRow ==
    \A p \in Posts : replies[p] <= 1 + window_restarts[p]

\* C1 witness: after a restart a submission that was answered once is listed
\* again, found in the table and skipped.
C1_Witness ==
    /\ restarts > 0
    /\ pc = "for"
    /\ outcome = "stored"
    /\ \E p \in Posts :
          /\ replies[p] = 1 /\ window_restarts[p] = 0
          /\ InStore(p) /\ InCache(p)

\* ---- C2
\* C2: whenever the loop body ends for a submission that passed the gate (reply
\* posted, foreign host, no identifier in the path, playlist not found), its id
\* is then once in submission_ids and in one row of the table.
C2_EveryBranchRecordsBoth ==
    [][ (BodyEnds /\ (PassesGate \/ pc \in {"playlist", "playlist_retry", "record"}))
          => /\ Occurrences(submission_ids', submission) = 1
             /\ Rows(db', submission) = 1 ]_vars

\* ---- C3
\* C3: in every reachable state submission_ids holds at most its capacity.
C3_CacheWithinCapacity == Len(submission_ids) <= CacheCapacity

\* ---- C4
\* C4: once an attempt to fetch the playlist failed with not-found, the process
\* is not in the retry loop of that fetch (no further fetch is pending) and no
\* reply to the submission follows.
C4_NotFoundIsFinal ==
    last_err = "notfound" => pc \notin {"playlist_retry", "pages", "pages_retry",
                                         "reply", "reply_retry", "record"}

C6_BackoffSequence ==
    /\ pc \in RetryPcs =>
          /\ \A k \in DOMAIN waits : waits[k] = Min(2 ^ k, 32)
          /\ sleep_time = Min(2 ^ (Len(waits) + 1), 32)
          /\ Len(waits) = attempt_count - 1
    /\ pc \notin RetryPcs => waits = << >>

\* C6 witness: the fifth reattempt of a reply failed; the sleeps were 2, 4, 8, 16,
\* 32 and the next is 32 again.
C6_Witness ==
    /\ pc = "reply_retry"
    /\ waits = << 2, 4, 8, 16, 32 >>
    /\ sleep_time = 32

\* ---- C7
\* C7: a listed submission whose id is in submission_ids or in the table is
\* skipped: the body ends with no playlist fetch, no reply and no new row; the
\* cache is left as it is on a cache hit and gets the id appended otherwise.
C7_KnownSubmissionSkipped ==
    [][ (pc = "for" /\ new_submissions # << >> /\ ProgramStep
          /\ (InCache(submission) \/ InStore(submission)))
          => /\ BodyEnds
             /\ outcome' \in {"cached", "stale", "stored"}
             /\ replies' = replies
             /\ db' = db
             /\ submission_ids' =
                   IF InCache(submission) THEN submission_ids
                   ELSE Append(submission_ids, submission) ]_vars

\* C7 witness: after a restart (empty cache) a submission found in the table was
\* skipped and is now cached.
C7_Witness ==
    /\ restarts > 0
    /\ outcome = "stored"
    /\ Len(submission_ids) > 0
    /\ InStore(submission_ids[Len(submission_ids)])
    /\ Len(db) = 1

\* ---- C8
\* Age of submission p in whole seconds.
Age(p) == now - created_utc(p)

\* C8 as stated: an uncached submission older than 900 s is skipped with no
\* fetch and no reply and its id is then in submission_ids and in the table;
\* one of age 900 or less is not skipped as stale.
C8_StaleRecordedInBoth ==
    [][ (pc = "for" /\ new_submissions # << >> /\ ProgramStep
          /\ ~InCache(submission))
          => /\ Age(submission) > 900 =>
                  /\ BodyEnds /\ outcome' = "stale"
                  /\ replies' = replies
                  /\ Occurrences(submission_ids', submission) = 1
                  /\ Rows(db', submission) = 1
             /\ Age(submission) <= 900 => outcome' # "stale" ]_vars

\* C8 amended: an uncached submission older than 900 s is skipped with no fetch
\* and no reply, its id is appended to submission_ids and no row is inserted;
\* one of age 900 or less is not skipped as stale.
C8_StaleRecordedInCache ==
    [][ (pc = "for" /\ new_submissions # << >> /\ ProgramStep
          /\ ~InCache(submission))
          => /\ Age(submission) > 900 =>
                  /\ BodyEnds /\ outcome' = "stale"
                  /\ replies' = replies
                  /\ submission_ids' = Append(submission_ids, submission)
                  /\ db' = db
             /\ Age(submission) <= 900 => outcome' # "stale" ]_vars

\* C8 witness: a submission of age 901 was skipped as stale: cached, no row.
C8_Witness ==
    /\ outcome = "stale"
    /\ Len(submission_ids) > 0
    /\ Age(submission_ids[Len(submission_ids)]) = 901
    /\ ~InStore(submission_ids[Len(submission_ids)])

\* ---- C9
\* C9: no id has two rows in the table, and every step leaves the table as it
\* is or appends one row whose id had none.
C9_OneRowPerId ==
    /\ [](\A p \in Posts : Rows(db, p) <= 1)
    /\ [][ \/ db' = db
           \/ /\ Len(db') = Len(db) + 1
              /\ SubSeq(db', 1, Len(db)) = db
              /\ Rows(db, db'[Len(db')].id) = 0 ]_vars

\* C9 witness: a row was inserted, the process restarted, and the submission was
\* listed again and skipped: the table still holds the one row.
C9_Witness ==
    /\ restarts > 0
    /\ outcome = "stored"
    /\ \E p \in Posts : Rows(db, p) = 1 /\ Rows(db, p) = Len(db)
    /\ db[1].ts < now

\* ---- C10
\* Page fetches a playlist of total t needs after its first page.
PagesNeeded(t) ==
    IF t <= PageSize THEN 0 ELSE (t + PageSize - 1) \div PageSize - 1

\* C10: while every page returned was full, the successful page fetches were at
\* offsets 100, 200, ... in that order, the items accumulated are the first
\* min(T, 100 * fetches + 100), a failed page fetch is retried at the offset of
\* the fetch that failed, and when the loop ends the fetches number
\* ceil(T/100) - 1 (none for T <= 100) and the items number T.
C10_Pagination ==
    (pc \in {"pages", "pages_retry"} /\ pages_full) =>
        /\ \A k \in DOMAIN page_offsets : page_offsets[k] = 100 * k
        /\ playlist.items = Min(playlist.total, 100 * (Len(page_offsets) + 1))
        /\ Len(page_offsets) <= PagesNeeded(playlist.total)
        /\ pc = "pages_retry" =>
              /\ last_req = 100 * (Len(page_offsets) + 1)
              /\ offset = last_req
              /\ playlist.items < playlist.total
        /\ (pc = "pages" /\ ~(playlist.items < playlist.total)) =>
              /\ Len(page_offsets) = PagesNeeded(playlist.total)
              /\ playlist.items = playlist.total

\* C10 witness: a playlist of 250 tracks is complete after the page fetches at
\* offsets 100 and 200.
C10_Witness ==
    /\ pc = "pages"
    /\ playlist = [total |-> 250, items |-> 250]
    /\ page_offsets = << 100, 200 >>
    /\ pages_full

\* ---- C11
\* C11: a playlist whose items hold null entries, in any position and number,
\* is never an error: the entries are left out of the total, the response is
\* built (and then posted and recorded), no exception ends the process.
C11_NullEntriesTolerated ==
    /\ stage # "raised"
    /\ stage \in {"timed", "ranked", "built"} => total_ms = SumDurationMs(items)

\* ---- C12
\* The two path shapes the extractor is specified for.
ShapePlaylist(segments) == Len(segments) >= 2 /\ Lower(segments[1]) = "playlist"
ShapeUser(segments) ==
    /\ Len(segments) >= 4
    /\ Lower(segments[1]) = "user"
    /\ Lower(segments[3]) = "playlist"

\* C12: for a submission that passed the gate and whose URL is on the Spotify
\* host, the extractor yields the 2nd segment of /playlist/{id} and the 4th of
\* /user/{username}/playlist/{id}; for every other path the submission is
\* skipped: no playlist fetch, no reply, its id in the cache, and the loop goes
\* on with the next submission.
C12_ExtractOrSkip ==
    [][ (PassesGate /\ HostOk(submission) /\ ProgramStep)
        => LET segments == url(submission).segments
           IN  IF ShapePlaylist(segments)
               THEN pc' = "playlist" /\ playlist_id' = segments[2]
               ELSE IF ShapeUser(segments)
               THEN pc' = "playlist" /\ playlist_id' = segments[4]
               ELSE /\ BodyEnds
                    /\ outcome' = "path"
                    /\ Occurrences(submission_ids', submission) = 1
                    /\ replies' = replies ]_vars

\* ---- C13
\* ranked holds every position of tracks once, popularity never rising along
\* it, and positions of equal popularity in their playlist order.
IsStableRanking(tracks, ranked) ==
    /\ Len(ranked) = Len(tracks)
    /\ \A i \in DOMAIN tracks : \E k \in DOMAIN ranked : ranked[k] = i
    /\ \A a, b \in DOMAIN ranked :
          a < b =>
             \/ Popularity(tracks[ranked[a]]) > Popularity(tracks[ranked[b]])
             \/ /\ Popularity(tracks[ranked[a]]) = Popularity(tracks[ranked[b]])
                /\ ranked[a] < ranked[b]

\* C13: the tracks listed in the reply are the first five (all, when there are
\* fewer) of a stable sort of every item by popularity descending, a null entry
\* counting as 0 and equal popularities keeping their playlist order; for the
\* popularities 10, 90, 50, 0, 70, 30, 60 they are 90, 70, 60, 50, 30.
C13_TopFiveOfStableRanking ==
    /\ stage \in {"ranked", "built", "raised"} => IsStableRanking(items, ranked_tracks)
    /\ stage = "built" =>
          /\ Len(listed) = Min(5, Len(items))
          /\ \A k \in DOMAIN listed : listed[k] = ranked_tracks[k]
    /\ (stage = "built" /\ items = PopularityExample) =>
          [k \in DOMAIN listed |-> items[listed[k]].popularity] = << 90, 70, 60, 50, 30 >>

\* A response built from more than five items, two of the listed ones of equal
\* popularity.
C13_Witness ==
    /\ stage = "built"
    /\ Len(items) > TopCount
    /\ \E a, b \in DOMAIN listed :
          /\ a < b
          /\ items[listed[a]] # items[listed[b]]
          /\ Popularity(items[listed[a]]) = Popularity(items[listed[b]])

\* ---- C14
RECURSIVE SumOver(_, _)
\* The sum of the durations of the entries of tracks at the positions of S.
SumOver(tracks, S) ==
    IF S = {} THEN 0
    ELSE LET i == CHOOSE x \in S : TRUE
         IN  tracks[i].duration_ms + SumOver(tracks, S \ {i})

\* C14: total_ms is the sum of duration_ms over the non-null entries only,
\* hours = total_ms div 3600000 and minutes = (total_ms div 60000) mod 60, so
\* that 0 <= minutes <= 59 and hours * 60 + minutes = total_ms div 60000; the
\* entries null, 120000 ms, 180000 ms give 0 hr 5 min.
C14_DurationInHoursAndMinutes ==
    stage \in {"timed", "ranked", "built", "raised"} =>
        /\ total_ms = SumOver(items, { i \in DOMAIN items : ~items[i].is_null })
        /\ hours = total_ms \div 3600000
        /\ minutes = (total_ms \div 60000) % 60
        /\ minutes \in 0..59
        /\ hours * 60 + minutes = total_ms \div 60000
        /\ items = DurationExample => (hours = 0 /\ minutes = 5)

\* A total of more than an hour, with a null entry and seconds to drop.
C14_Witness ==
    /\ stage = "timed"
    /\ \E i \in DOMAIN items : items[i].is_null
    /\ hours >= 1
    /\ minutes > 0
    /\ total_ms % MsPerMinute # 0

\* ---- C15
\* C15: eviction from submission_ids is first in, first out: a step of main()
\* that removes ids removes exactly those at the front (the earliest appended),
\* leaves the others in their order, and keeps the id it appended itself.  (The
\* end of the process, by a restart or an uncaught exception, is no eviction.)
C15_EvictionIsFifo ==
    [][ (ProgramStep /\ pc' # "crashed" /\ submission_ids' # submission_ids)
        => LET appended == Append(submission_ids, submission)
           IN  \E removed \in 0..Len(submission_ids) :
                  submission_ids' = SubSeq(appended, removed + 1, Len(appended)) ]_vars

\* The record of a reply has just removed two ids from a cache left at its
\* capacity.
C15_Witness ==
    /\ outcome = "replied"
    /\ Len(popped) >= 2
    /\ Len(submission_ids) = CacheCapacity
    /\ \A i \in DOMAIN popped : ~InCache(popped[i])

\* ---- C16
\* Positions of main() between the playlist fetch and the record of the reply.
Processing ==
    pc \in {"playlist", "playlist_retry", "pages", "pages_retry", "reply", "reply_retry",
            "record"}

\* C16: a submission that was skipped for good (host other than Spotify's, no
\* playlist id in the path, or playlist reported missing) is never again taken
\* to a playlist fetch or a reply by a later poll, its id evicted from the
\* cache or not.  The URL of a submission never changes, so for the first two
\* kinds this is: no submission with such a URL is being processed.  For the
\* third, gone_seen holds what the running process skipped, and the statement
\* is that of the later polls of that process (a restarted one starts with the
\* cache empty, which is the eviction of every id at once).
C16_SkippedForGood ==
    Processing =>
        /\ HostOk(submission)
        /\ Extract(url(submission).segments).kind = "id"
        /\ submission \notin gone_seen

\* ---- C17
\* C17: submission_ids never holds an id twice: a step of main() that appends an
\* id does so for an id that was not in the cache, and the body of a submission
\* whose id is in the cache leaves the cache as it is.
C17_NoDuplicateInCache ==
    /\ [](\A p \in Posts : Occurrences(submission_ids, p) <= 1)
    /\ [][ (ProgramStep /\ pc \notin {"poll", "poll_retry"} /\ new_submissions # << >>)
           => IF Occurrences(submission_ids, submission) = 0
              THEN Occurrences(submission_ids', submission) <= 1
              ELSE submission_ids' = submission_ids ]_vars

\* A submission already in the cache was listed again, behind another one
\* that was appended, and skipped.
C17_Witness ==
    /\ outcome = "cached"
    /\ restarts = 0
    /\ Len(submission_ids) >= 2
    /\ db = << >>

\* ---- C18
\* C18: a row is inserted only after the reply to its submission was posted:
\* every id in the table has a posted reply, and a processed submission goes
\* through the playlist fetch, then all its page fetches, then the posting of
\* the reply, then the append to the cache and the insert of the row.
C18_RowOnlyAfterReply ==
    /\ [](\A i \in DOMAIN db : replies[db[i].id] >= 1)
    /\ [][ db' # db
           => /\ pc = "record"
              /\ replies[submission] >= 1
              /\ db' = Append(db, [id |-> submission, ts |-> now])
              /\ submission_ids'[Len(submission_ids')] = submission ]_vars
    /\ [][ (pc' = "record" /\ pc # "record")
           => /\ pc \in {"reply", "reply_retry"}
              /\ replies'[submission] = replies[submission] + 1 ]_vars
    /\ [][ (pc' = "reply" /\ pc # "reply")
           => pc = "pages" /\ playlist.items >= playlist.total ]_vars
    /\ [][ (pc' = "pages" /\ pc \notin {"pages", "pages_retry"})
           => pc \in {"playlist", "playlist_retry"} ]_vars

\* The row of a submission was inserted, its one reply posted before, its id
\* the latest of the cache.
C18_Witness ==
    /\ restarts = 0
    /\ outcome = "replied"
    /\ Len(db) = 1
    /\ replies[db[1].id] = 1
    /\ submission_ids # << >>
    /\ submission_ids[Len(submission_ids)] = db[1].id

\* ---- C19
\* C19: with every page fetch succeeding in the end, the pagination loop of a
\* submission is left, whatever the pages hold (fewer items than asked for, or
\* none, the playlist having shrunk since its total was read).  The test of the
\* loop (line 157) reads the number of items and the total only, so the loop is
\* left for every sequence of pages exactly when a page that arrives empty
\* leaves the test false: if it does not, the pages after it may all be empty,
\* the test stays true and the loop is never left.
C19_PaginationTerminates ==
    [][ (Len(page_offsets') > Len(page_offsets) /\ playlist'.items = playlist.items)
        => ~(playlist'.items < playlist'.total) ]_vars

====
